---------------------------- MODULE Spec2Model ----------------------------
(***************************************************************************)
(* Safari Tab Manager: the classification pipeline (pinned-tab filter,     *)
(* visit-history enrichment, duplicate detection) and the close protocol   *)
(* driven by the Bubble Tea Update loop.                                   *)
(*                                                                         *)
(* Conventions.  A URL is held in the state as an index into URLText; the  *)
(* string functions work on the text, a tuple of one-character strings.    *)
(* Slice indices are 0-based as in Go: element i of a Go slice s is        *)
(* s[i + 1] here.  A nil *int (Tab.DuplicateOf) is NoDup.  Tab.Title is    *)
(* left out: no branch of the program reads it.                            *)
(***************************************************************************)
EXTENDS Integers, Sequences, FiniteSets, TLC

(***************************************************************************)
(* Bounds of the model.                                                    *)
(***************************************************************************)
MaxRaw == 3          \* longest raw tab list drawn for the classification runs
MaxWindow == 3       \* highest window index drawn for the classification runs
MaxRequests == 2     \* close requests accepted in one run of the protocol
MaxTabs == 3         \* tabs of the browsers drawn for the runs of closeTabsAsync alone
RaceRequests == 4    \* close requests accepted in the runs with overlapping requests

(***************************************************************************)
(* Program constants.                                                      *)
(***************************************************************************)
PinnedMaxIndex == 4        \* tab.TabIndex <= 4
PinnedMinCount == 3        \* count >= 3
SimilarityTenths == 7      \* similarity > 0.7

NoDup == 0 - 1             \* Tab.DuplicateOf == nil
ZeroTime == 0 - 1          \* the zero time.Time of a Tab without LastVisit

(***************************************************************************)
(* The URLs the browser may show.                                          *)
(***************************************************************************)
URLText ==
  << <<"h", "t", "t", "p", "s", ":", "/", "/", "a", ".", "i", "o", "/", "x">>,
     <<"h", "t", "t", "p", "s", ":", "/", "/", "w", "w", "w", ".", "a", ".", "i", "o", "/", "x", "/">>,
     <<"h", "t", "t", "p", ":", "/", "/", "A", ".", "i", "o", "/", "y">>,
     <<"h", "t", "t", "p", ":", "/", "/", "b", ".", "i", "o">>,
     <<"h", "t", "t", "p", "s", ":", "/", "/", "s", "i", "t", "e", ".", "c", "o", "m", "/", "p", "a", "g", "e", "?", "i", "d", "=", "1">>,
     <<"h", "t", "t", "p", "s", ":", "/", "/", "s", "i", "t", "e", ".", "c", "o", "m", "/", "p", "a", "g", "e", "?", "i", "d", "=", "2">>,
     << >>,
     <<"h", "t", "t", "p", ":", "/", "/", "b", ".", "i", "o", "/">>,
     <<"h", "t", "t", "p", "s", ":", "/", "/", "s", "i", "t", "e", ".", "c", "o", "m", "/", "p", "a", "g", "e", "?", "x", "y", "=", "2">>,
     <<"h", "t", "t", "p", ":", "/", "/", "a", ".", "i", "o", "/", "X">> >>

AllURLs == 1..Len(URLText)

(***************************************************************************)
(* package strings                                                         *)
(***************************************************************************)
Str(s) == [i \in 1..Len(s) |-> s[i]]

HasPrefix(s, p) == Len(s) >= Len(p) /\ SubSeq(s, 1, Len(p)) = Str(p)

HasSuffix(s, p) ==
  Len(s) >= Len(p) /\ SubSeq(s, Len(s) - Len(p) + 1, Len(s)) = Str(p)

TrimPrefix(s, p) == IF HasPrefix(s, p) THEN SubSeq(s, Len(p) + 1, Len(s)) ELSE s

TrimSuffix(s, p) == IF HasSuffix(s, p) THEN SubSeq(s, 1, Len(s) - Len(p)) ELSE s

\* the least position at which sep occurs in s, 0 when it does not occur
IndexOf(s, sep) ==
  LET hits == {i \in 1..(Len(s) - Len(sep) + 1) :
                 SubSeq(s, i, i + Len(sep) - 1) = Str(sep)}
  IN IF hits = {} THEN 0 ELSE CHOOSE i \in hits : \A k \in hits : i <= k

\* strings.SplitN(s, sep, 2): one part when sep does not occur, else two
SplitN2(s, sep) ==
  LET p == IndexOf(s, sep)
  IN IF p = 0 THEN <<s>>
     ELSE <<SubSeq(s, 1, p - 1), SubSeq(s, p + Len(sep), Len(s))>>

UpperCase ==
  <<"A", "B", "C", "D", "E", "F", "G", "H", "I", "J", "K", "L", "M",
    "N", "O", "P", "Q", "R", "S", "T", "U", "V", "W", "X", "Y", "Z">>

LowerCase ==
  <<"a", "b", "c", "d", "e", "f", "g", "h", "i", "j", "k", "l", "m",
    "n", "o", "p", "q", "r", "s", "t", "u", "v", "w", "x", "y", "z">>

ToLowerChar(c) ==
  IF \E k \in 1..Len(UpperCase) : UpperCase[k] = c
  THEN LowerCase[CHOOSE k \in 1..Len(UpperCase) : UpperCase[k] = c]
  ELSE c

ToLower(s) == [i \in 1..Len(s) |-> ToLowerChar(s[i])]

(***************************************************************************)
(* min, max                                                                *)
(***************************************************************************)
min3(a, b, c) ==
  LET m1 == IF b < a THEN b ELSE a
  IN IF c < m1 THEN c ELSE m1

max(a, b) == IF a > b THEN a ELSE b

(***************************************************************************)
(* extractDomain, extractPath                                              *)
(***************************************************************************)
extractDomain(url) ==
  LET u1 == TrimPrefix(url, <<"h", "t", "t", "p", ":", "/", "/">>)
      u2 == TrimPrefix(u1, <<"h", "t", "t", "p", "s", ":", "/", "/">>)
      u3 == TrimPrefix(u2, <<"w", "w", "w", ".">>)
      parts == SplitN2(u3, <<"/">>)      \* only parts[0] of strings.Split is read
  IN ToLower(parts[1])

extractPath(url) ==
  LET parts == SplitN2(url, <<"/", "/">>)
  IN IF Len(parts) < 2 THEN << >>
     ELSE LET parts2 == SplitN2(parts[2], <<"/">>)
          IN IF Len(parts2) < 2 THEN << >>
             ELSE <<"/">> \o TrimSuffix(parts2[2], <<"/">>)

(***************************************************************************)
(* calculateSimilarity: the Levenshtein matrix, filled row by row.  The    *)
(* result 1 - distance/maxLen is kept as the pair <<distance, maxLen>>;    *)
(* s1 = s2 gives <<0, 1>> (1.0) and an empty side gives <<1, 1>> (0.0).    *)
(***************************************************************************)
RECURSIVE LevRow(_, _, _, _, _)
\* cells 0..j-1 of row i are in row; prev is row i-1
LevRow(s1, s2, i, prev, row) ==
  LET j == Len(row)
  IN IF j > Len(s2) THEN row
     ELSE LET cost == IF s1[i] = s2[j] THEN 0 ELSE 1
              cell == min3(prev[j + 1] + 1, row[j] + 1, prev[j] + cost)
          IN LevRow(s1, s2, i, prev, Append(row, cell))

RECURSIVE LevMatrix(_, _, _, _)
LevMatrix(s1, s2, i, prev) ==
  IF i > Len(s1) THEN prev
  ELSE LevMatrix(s1, s2, i + 1, LevRow(s1, s2, i, prev, <<i>>))

Levenshtein(s1, s2) ==
  LevMatrix(s1, s2, 1, [j \in 1..(Len(s2) + 1) |-> j - 1])[Len(s2) + 1]

calculateSimilarity(a, b) ==
  LET s1 == ToLower(a)
      s2 == ToLower(b)
  IN IF s1 = s2 THEN <<0, 1>>
     ELSE IF Len(s1) = 0 \/ Len(s2) = 0 THEN <<1, 1>>
     ELSE <<Levenshtein(s1, s2), max(Len(s1), Len(s2))>>

\* the threshold test with >= in place of >
OverThresholdInclusive(sim) == 10 * (sim[2] - sim[1]) >= SimilarityTenths * sim[2]

\* 1 - d/maxLen > 0.7, in tenths
OverThreshold(sim) == 10 * (sim[2] - sim[1]) > SimilarityTenths * sim[2]

areSimilarURLsText(url1, url2) ==
  LET domain1 == extractDomain(url1)
      domain2 == extractDomain(url2)
  IN IF domain1 = << >> \/ domain2 = << >> THEN FALSE
     ELSE IF domain1 # domain2 THEN FALSE
     ELSE LET path1 == extractPath(url1)
              path2 == extractPath(url2)
          IN IF path1 = path2 THEN TRUE
             ELSE OverThreshold(calculateSimilarity(path1, path2))

SimilarTable ==
  [p \in AllURLs \X AllURLs |-> areSimilarURLsText(URLText[p[1]], URLText[p[2]])]

areSimilarURLs(u1, u2) == SimilarTable[<<u1, u2>>]


(***************************************************************************)
(* Tab and the helpers on Go slices and maps.                              *)
(***************************************************************************)
NewTab(w, t, u) ==
  [WindowIndex |-> w, TabIndex |-> t, URL |-> u, DuplicateOf |-> NoDup,
   Selected |-> FALSE, LastVisit |-> ZeroTime, IsOld |-> FALSE]

Range(s) == {s[i] : i \in 1..Len(s)}

RECURSIVE Filter(_, _)
\* the elements of s for which keep[i] holds, in the order of s
Filter(s, keep) ==
  IF s = << >> THEN << >>
  ELSE LET n == Len(s)
           front == Filter(SubSeq(s, 1, n - 1), keep)
       IN IF keep[n] THEN Append(front, s[n]) ELSE front

\* every order in which ranging over a map with key set S may visit the keys
Orders(S) ==
  {q \in [1..Cardinality(S) -> S] : \A i, j \in DOMAIN q : i # j => q[i] # q[j]}

(***************************************************************************)
(* filterPinnedTabs                                                        *)
(***************************************************************************)
\* urlPositionCount[url][tabIndex]
urlPositionCount(allTabs, url, pos) ==
  Cardinality({i \in 1..Len(allTabs) :
                 /\ allTabs[i].TabIndex <= PinnedMaxIndex
                 /\ allTabs[i].URL = url
                 /\ allTabs[i].TabIndex = pos})

\* a threshold that is off by one
pinnedURLsLowThreshold(allTabs) ==
  {url \in {allTabs[i].URL : i \in 1..Len(allTabs)} :
     \E pos \in {allTabs[i].TabIndex : i \in 1..Len(allTabs)} :
        urlPositionCount(allTabs, url, pos) >= PinnedMinCount - 1}

pinnedURLs(allTabs) ==
  {url \in {allTabs[i].URL : i \in 1..Len(allTabs)} :
     \E pos \in {allTabs[i].TabIndex : i \in 1..Len(allTabs)} :
        urlPositionCount(allTabs, url, pos) >= PinnedMinCount}

IsPinnedTab(allTabs, tab) ==
  tab.TabIndex <= PinnedMaxIndex /\ tab.URL \in pinnedURLs(allTabs)

windowTotalCount(allTabs, w) ==
  Cardinality({i \in 1..Len(allTabs) : allTabs[i].WindowIndex = w})

windowPinnedCount(allTabs, pinned, w) ==
  Cardinality({i \in 1..Len(allTabs) :
                 /\ allTabs[i].WindowIndex = w
                 /\ allTabs[i].TabIndex <= PinnedMaxIndex
                 /\ allTabs[i].URL \in pinned})

\* the windows appended to emptyWindows; the map range fixes no order
emptyWindowSet(allTabs) ==
  LET pinned == pinnedURLs(allTabs)
  IN {w \in {allTabs[i].WindowIndex : i \in 1..Len(allTabs)} :
        /\ windowTotalCount(allTabs, w) > 0
        /\ windowPinnedCount(allTabs, pinned, w) = windowTotalCount(allTabs, w)}

\* a filter that drops a pinned URL at every position
filterPinnedTabsAnyPosition(allTabs) ==
  LET pinned == pinnedURLs(allTabs)
  IN Filter(allTabs, [i \in 1..Len(allTabs) |-> allTabs[i].URL \notin pinned])

\* the first result of filterPinnedTabs
filterPinnedTabs(allTabs) ==
  LET pinned == pinnedURLs(allTabs)
  IN Filter(allTabs,
            [i \in 1..Len(allTabs) |->
               ~(allTabs[i].TabIndex <= PinnedMaxIndex /\ allTabs[i].URL \in pinned)])

(***************************************************************************)
(* enrichWithVisitData.  store.ok is FALSE when the home directory, the    *)
(* database or the query is unavailable; store.visitTimes is the map built *)
(* from the rows of the query, in seconds.                                 *)
(***************************************************************************)
DayLen == 86400
DefaultAge == 30
Now == 40 * DayLen

ageThreshold(now, ageDays) == now - ageDays * DayLen

\* the enrichment with "not after" in place of Before
enrichWithVisitDataInclusive(tabs, ageDays, store, now) ==
  IF ~store.ok THEN tabs
  ELSE [i \in 1..Len(tabs) |->
          IF tabs[i].URL \in DOMAIN store.visitTimes
          THEN [tabs[i] EXCEPT
                  !.LastVisit = store.visitTimes[tabs[i].URL],
                  !.IsOld = store.visitTimes[tabs[i].URL] <= ageThreshold(now, ageDays)]
          ELSE [tabs[i] EXCEPT !.IsOld = TRUE]]

enrichWithVisitData(tabs, ageDays, store, now) ==
  IF ~store.ok THEN tabs
  ELSE [i \in 1..Len(tabs) |->
          IF tabs[i].URL \in DOMAIN store.visitTimes
          THEN [tabs[i] EXCEPT
                  !.LastVisit = store.visitTimes[tabs[i].URL],
                  !.IsOld = store.visitTimes[tabs[i].URL] < ageThreshold(now, ageDays)]
          ELSE [tabs[i] EXCEPT !.IsOld = TRUE]]

(***************************************************************************)
(* findDuplicates                                                          *)
(***************************************************************************)
RECURSIVE FirstMatchNoBreak(_, _, _)
\* the inner loop without its break statements: the last match is kept
FirstMatchNoBreak(tabs, i, j) ==
  IF j >= i THEN NoDup
  ELSE LET later == FirstMatchNoBreak(tabs, i, j + 1)
       IN IF later # NoDup THEN later
          ELSE IF tabs[i + 1].URL = tabs[j + 1].URL THEN j
          ELSE IF areSimilarURLs(tabs[i + 1].URL, tabs[j + 1].URL) THEN j
          ELSE NoDup

RECURSIVE FirstMatch(_, _, _)
\* the inner loop: the first j in j0..i-1 at which the loop breaks, or NoDup
FirstMatch(tabs, i, j) ==
  IF j >= i THEN NoDup
  ELSE IF tabs[i + 1].URL = tabs[j + 1].URL THEN j
  ELSE IF areSimilarURLs(tabs[i + 1].URL, tabs[j + 1].URL) THEN j
  ELSE FirstMatch(tabs, i, j + 1)

\* a detector that links a tab to the original of its match where the match
\* is marked as a duplicate itself
findDuplicatesToOriginal(tabs) ==
  [k \in 1..Len(tabs) |->
     LET j == FirstMatch(tabs, k - 1, 0)
     IN IF j = NoDup THEN tabs[k]
        ELSE [tabs[k] EXCEPT
                !.DuplicateOf = IF tabs[j + 1].DuplicateOf # NoDup
                                THEN tabs[j + 1].DuplicateOf ELSE j,
                !.Selected = TRUE]]

\* a detector that stores the index and leaves Selected as it was
findDuplicatesUnselected(tabs) ==
  [k \in 1..Len(tabs) |->
     LET j == FirstMatch(tabs, k - 1, 0)
     IN IF j = NoDup THEN tabs[k]
        ELSE [tabs[k] EXCEPT !.DuplicateOf = j]]

findDuplicates(tabs) ==
  [k \in 1..Len(tabs) |->
     LET j == FirstMatch(tabs, k - 1, 0)
     IN IF j = NoDup THEN tabs[k]
        ELSE [tabs[k] EXCEPT !.DuplicateOf = j, !.Selected = TRUE]]


(***************************************************************************)
(* State.                                                                  *)
(*   safari   the browser: a sequence of windows, each a sequence of URLs  *)
(*   store    the History Store read by enrichWithVisitData                *)
(*   phase    "start" before main has run, "running" while the program's   *)
(*            event loop runs, "exited" after os.Exit or tea.Quit,         *)
(*            "classify" in the runs of the classification pipeline alone  *)
(*   m        the Bubble Tea model (struct model)                          *)
(*   heap     the backing arrays of the emptyWindows slices, by slice id   *)
(*   req      the commands in flight, one record per accepted request      *)
(*   nreq     the number of close requests accepted so far                 *)
(*   budget   the number of close requests a run may accept                *)
(*   enterPressed  history: the Enter key has been handled                 *)
(*   cpc, cRaw, cTabs, cEmpty   the classification pipeline of             *)
(*            getSafariTabs and findDuplicates, step by step               *)
(*   sim      one call of areSimilarURLs: its arguments and its result     *)
(***************************************************************************)
VARIABLES safari, store, phase, m, heap, req, nreq, budget, enterPressed,
          cpc, cRaw, cTabs, cEmpty, sim

pvars == <<safari, phase, m, heap, req, nreq, budget, enterPressed>>
cvars == <<cpc, cRaw, cTabs, cEmpty, sim>>
vars == <<safari, store, phase, m, heap, req, nreq, budget, enterPressed,
          cpc, cRaw, cTabs, cEmpty, sim>>

(***************************************************************************)
(* The History Store: unavailable, or a map from URLs to the last visit.   *)
(***************************************************************************)
StoreDown == [ok |-> FALSE, visitTimes |-> << >>]

StoreWith(visits) == [ok |-> TRUE, visitTimes |-> visits]

\* one visit exactly at the threshold instant and one a second older
StoreEdge ==
  StoreWith((1 :> ageThreshold(Now, DefaultAge))
              @@ (2 :> ageThreshold(Now, DefaultAge) - 1))

\* one visit a second younger than the threshold instant
StoreRecent == StoreWith(1 :> ageThreshold(Now, DefaultAge) + 1)

Stores == {StoreDown, StoreEdge, StoreRecent}

(***************************************************************************)
(* The values of the model's record before main has built it.              *)
(***************************************************************************)
NoMessage == [kind |-> "none", count |-> 0]

\* no call of areSimilarURLs under way
NoCompare == [pc |-> "off", url1 |-> 0, url2 |-> 0, similar |-> FALSE]

NoModel ==
  [tabs |-> << >>, quitting |-> FALSE, closing |-> FALSE, ageDays |-> DefaultAge,
   closingTotal |-> 0, closingCurrent |-> 0, closingDone |-> FALSE,
   message |-> NoMessage, emptyPinnedOnlyWindows |-> 0, cursor |-> 0]

(***************************************************************************)
(* The classification pipeline on its own: getSafariTabsRaw has returned   *)
(* cRaw; filterPinnedTabs, enrichWithVisitData and findDuplicates follow   *)
(* as in getSafariTabs and main.  A raw list is in enumeration order and   *)
(* holds one tab per position; getSafariTabsRaw skips the lines it cannot  *)
(* split into four parts, so positions may be missing.                     *)
(***************************************************************************)
ClassifyURLs == {1, 2, 7}
ClassifyTabIndices == {1, 4, 5}
Positions == (1..MaxWindow) \X ClassifyTabIndices

PosLess(p, q) == p[1] < q[1] \/ (p[1] = q[1] /\ p[2] < q[2])

\* the positions of P in enumeration order
RECURSIVE InOrder(_)
InOrder(P) ==
  IF P = {} THEN << >>
  ELSE LET last == CHOOSE p \in P : \A q \in P \ {p} : PosLess(q, p)
       IN Append(InOrder(P \ {last}), last)

\* the sets of up to MaxRaw positions
PositionSets == {Q \in SUBSET Positions : Cardinality(Q) <= MaxRaw}

\* the raw lists with a tab at each position of P
RawListsOn(P) ==
  LET ord == InOrder(P)
  IN {[i \in 1..Len(ord) |-> NewTab(ord[i][1], ord[i][2], urls[ord[i]])] :
        urls \in [P -> ClassifyURLs]}

InitClassify ==
  /\ \E P \in PositionSets : cRaw \in RawListsOn(P)
  /\ store \in Stores
  /\ cpc = "raw"
  /\ cTabs = cRaw
  /\ cEmpty = << >>
  /\ phase = "classify"
  /\ safari = << >>
  /\ m = NoModel
  /\ heap = << >>
  /\ req = << >>
  /\ nreq = 0
  /\ budget = 0
  /\ enterPressed = FALSE
  /\ sim = NoCompare

\* getSafariTabs: tabs, emptyWindows := filterPinnedTabs(allTabs)
StepFilter ==
  /\ phase = "classify" /\ cpc = "raw"
  /\ cTabs' = filterPinnedTabs(cRaw)
  /\ cEmpty' \in Orders(emptyWindowSet(cRaw))
  /\ cpc' = "filtered"
  /\ UNCHANGED <<cRaw, store, pvars, sim>>

\* getSafariTabs: tabs = enrichWithVisitData(tabs, ageDays)
StepEnrich ==
  /\ phase = "classify" /\ cpc = "filtered"
  /\ cTabs' = enrichWithVisitData(cTabs, DefaultAge, store, Now)
  /\ cpc' = "enriched"
  /\ UNCHANGED <<cRaw, cEmpty, store, pvars, sim>>

\* main, refreshTabsCmd: tabs = findDuplicates(tabs)
StepFindDuplicates ==
  /\ phase = "classify" /\ cpc = "enriched"
  /\ cTabs' = findDuplicates(cTabs)
  /\ cpc' = "classified"
  /\ UNCHANGED <<cRaw, cEmpty, store, pvars, sim>>

NextClassify == StepFilter \/ StepEnrich \/ StepFindDuplicates

SpecClassify == InitClassify /\ [][NextClassify]_vars

(***************************************************************************)
(* filterPinnedTabs on its own, on the lists in which a window may hold    *)
(* pinned tabs next to others: in every window position 1 is free or holds *)
(* URL 1 or 4, position 2 is free or holds URL 4, position 5 is free or    *)
(* holds URL 1.  A free position is 0.                                     *)
(***************************************************************************)
PinnedRows ==
  {Filter(<< <<1, a>>, <<2, b>>, <<5, c>> >>, <<a # 0, b # 0, c # 0>>) :
     <<a, b, c>> \in {0, 1, 4} \X {0, 4} \X {0, 1}}

RECURSIVE RawOfRows(_, _)
\* the output of the enumerate script for the windows w.. of rows
RawOfRows(rows, w) ==
  IF w > Len(rows) THEN << >>
  ELSE [i \in 1..Len(rows[w]) |-> NewTab(w, rows[w][i][1], rows[w][i][2])]
         \o RawOfRows(rows, w + 1)

InitPinned ==
  /\ \E rows \in [1..MaxWindow -> PinnedRows] : cRaw = RawOfRows(rows, 1)
  /\ store = StoreDown
  /\ cpc = "raw"
  /\ cTabs = cRaw
  /\ cEmpty = << >>
  /\ phase = "classify"
  /\ safari = << >>
  /\ m = NoModel
  /\ heap = << >>
  /\ req = << >>
  /\ nreq = 0
  /\ budget = 0
  /\ enterPressed = FALSE
  /\ sim = NoCompare

NextPinned == StepFilter

SpecPinned == InitPinned /\ [][NextPinned]_vars

(***************************************************************************)
(* findDuplicates run twice: on a list without marks, then on the list it  *)
(* returned.  URLs 5, 6 and 9 are similar in a chain (5 to 6, 6 to 9, not  *)
(* 5 to 9); URL 7 is similar to none.                                      *)
(***************************************************************************)
RerunURLs == {5, 6, 7, 9}

InitRerun ==
  /\ \E n \in 1..MaxRaw : \E urls \in [1..n -> RerunURLs] :
       cRaw = [i \in 1..n |-> NewTab(1, i, urls[i])]
  /\ store = StoreDown
  /\ cpc = "enriched"
  /\ cTabs = cRaw
  /\ cEmpty = << >>
  /\ phase = "classify"
  /\ safari = << >>
  /\ m = NoModel
  /\ heap = << >>
  /\ req = << >>
  /\ nreq = 0
  /\ budget = 0
  /\ enterPressed = FALSE
  /\ sim = NoCompare

\* tabs = findDuplicates(tabs) once more, on the list of the first call
StepFindDuplicatesAgain ==
  /\ phase = "classify" /\ cpc = "classified"
  /\ cTabs' = findDuplicates(cTabs)
  /\ cpc' = "reclassified"
  /\ UNCHANGED <<cRaw, cEmpty, store, pvars, sim>>

NextRerun == StepFindDuplicates \/ StepFindDuplicatesAgain

SpecRerun == InitRerun /\ [][NextRerun]_vars

(***************************************************************************)
(* areSimilarURLs on its own, on every pair of the URLs of URLText.        *)
(***************************************************************************)
InitSimilar ==
  /\ \E url1, url2 \in AllURLs :
       sim = [pc |-> "ready", url1 |-> url1, url2 |-> url2, similar |-> FALSE]
  /\ phase = "compare"
  /\ store = StoreDown
  /\ safari = << >>
  /\ m = NoModel
  /\ heap = << >>
  /\ req = << >>
  /\ nreq = 0
  /\ budget = 0
  /\ enterPressed = FALSE
  /\ cpc = "off"
  /\ cRaw = << >>
  /\ cTabs = << >>
  /\ cEmpty = << >>

\* areSimilarURLs(url1, url2) returns
Compare ==
  /\ phase = "compare" /\ sim.pc = "ready"
  /\ sim' = [sim EXCEPT !.pc = "compared",
                        !.similar = areSimilarURLs(sim.url1, sim.url2)]
  /\ UNCHANGED <<store, pvars, cpc, cRaw, cTabs, cEmpty>>

NextSimilar == Compare

SpecSimilar == InitSimilar /\ [][NextSimilar]_vars


(***************************************************************************)
(* The browser as the osascript calls see it.                              *)
(***************************************************************************)
RemoveAt(s, i) == SubSeq(s, 1, i - 1) \o SubSeq(s, i + 1, Len(s))

RECURSIVE EnumerateFrom(_, _)
\* the repeat loops of the enumerate script, from window w on
EnumerateFrom(browser, w) ==
  IF w > Len(browser) THEN << >>
  ELSE [t \in 1..Len(browser[w]) |-> NewTab(w, t, browser[w][t])]
         \o EnumerateFrom(browser, w + 1)

\* getSafariTabsRaw when osascript succeeds
getSafariTabsRaw(browser) == EnumerateFrom(browser, 1)

HasTab(browser, w, t) == w \in 1..Len(browser) /\ t \in 1..Len(browser[w])

\* "close tab t of window w" carried out; the window goes with its last tab
CloseTabIn(browser, w, t) ==
  IF Len(browser[w]) = 1 THEN RemoveAt(browser, w)
  ELSE [browser EXCEPT ![w] = RemoveAt(browser[w], t)]

\* "close tab t of window w" carried out by a browser whose windows keep
\* their indices: the tabs above t move down by one, the window stays
CloseTabKeepWindow(browser, w, t) == [browser EXCEPT ![w] = RemoveAt(browser[w], t)]

\* "close window w" carried out
CloseWindowIn(browser, w) == RemoveAt(browser, w)

(***************************************************************************)
(* closeTabsAsync: the plan.                                               *)
(***************************************************************************)
WindowTab(tab) == [window |-> tab.WindowIndex, tab |-> tab.TabIndex, url |-> tab.URL]

RECURSIVE MatchTabsNoDelete(_, _)
\* the matching loop without delete(urlsToClose, tab.URL)
MatchTabsNoDelete(currentTabs, urlsToClose) ==
  IF currentTabs = << >> THEN << >>
  ELSE IF Head(currentTabs).URL \in urlsToClose
       THEN <<WindowTab(Head(currentTabs))>>
              \o MatchTabsNoDelete(Tail(currentTabs), urlsToClose)
       ELSE MatchTabsNoDelete(Tail(currentTabs), urlsToClose)

RECURSIVE MatchTabs(_, _)
\* tabsToCloseNow: ranging over currentTabs, a tab whose URL is still in
\* urlsToClose is appended and its URL deleted from urlsToClose
MatchTabs(currentTabs, urlsToClose) ==
  IF currentTabs = << >> THEN << >>
  ELSE IF Head(currentTabs).URL \in urlsToClose
       THEN <<WindowTab(Head(currentTabs))>>
              \o MatchTabs(Tail(currentTabs), urlsToClose \ {Head(currentTabs).URL})
       ELSE MatchTabs(Tail(currentTabs), urlsToClose)

\* a less function that orders the tabs of one window upwards
PlanLessTabsAscending(a, b) ==
  IF a.window # b.window THEN a.window > b.window ELSE a.tab < b.tab

\* the less function handed to sort.Slice
PlanLess(a, b) ==
  IF a.window # b.window THEN a.window > b.window ELSE a.tab > b.tab

RECURSIVE SortedBy(_)
\* the elements of the set S in the order of PlanLess, which is a strict
\* total order on entries that differ in (window, tab)
SortedBy(S) ==
  IF S = {} THEN << >>
  ELSE LET first == CHOOSE x \in S : \A y \in S \ {x} : PlanLess(x, y)
       IN <<first>> \o SortedBy(S \ {first})

\* the plan left in the order of the matching loop
SortPlanUnsorted(tabsToCloseNow) == tabsToCloseNow

\* sort.Slice(tabsToCloseNow, less)
SortPlan(tabsToCloseNow) == SortedBy(Range(tabsToCloseNow))

(***************************************************************************)
(* The commands in flight.  One record per accepted close request; it      *)
(* follows closeTabsAsync and then the refreshTabsCmd that the             *)
(* closingCompleteMsg starts.                                              *)
(*   pc           "idle", "enumerate", "closeTabs", "sortCmp", "sortRead", *)
(*                "sortW1", "sortW2", "closeWindows", "complete" (the      *)
(*                closingCompleteMsg waits for Update), "refresh",         *)
(*                "refreshed" (the tabsRefreshedMsg waits), "done"         *)
(*   tabsToClose  the URLs of the tabs handed over, in list order          *)
(*   ew           the slice emptyWindows: its id in heap                   *)
(*   ewLen        len(emptyWindows)                                        *)
(*   currentTabs, plan   the fresh snapshot and the sorted tabsToCloseNow  *)
(*   idx          the index of the running range loop                      *)
(*   si, sj, sa, sb   the insertion sort of sort.Sort: outer and inner     *)
(*                index and the two values a Swap has read                 *)
(*   count        the count of the closingCompleteMsg                      *)
(*   tabs         the tabs of the tabsRefreshedMsg (its emptyWindows is    *)
(*                the slice of the request's own id)                       *)
(*   failed       history: the enumerate call of closeTabsAsync failed     *)
(*   ewIn         history: emptyWindows as it was handed over              *)
(*   issued       history: the close commands issued, in order             *)
(***************************************************************************)
IdleReq ==
  [pc |-> "idle", tabsToClose |-> << >>, ew |-> 0, ewLen |-> 0,
   currentTabs |-> << >>, plan |-> << >>, idx |-> 0,
   si |-> 0, sj |-> 0, sa |-> 0, sb |-> 0, count |-> 0, tabs |-> << >>,
   failed |-> FALSE, ewIn |-> << >>, issued |-> << >>]

DoneReq == [IdleReq EXCEPT !.pc = "done"]

CloseTabCmd(w, t) == [op |-> "tab", window |-> w, tab |-> t]
CloseWindowCmd(w) == [op |-> "window", window |-> w, tab |-> 0]

ClosePcs ==
  {"enumerate", "closeTabs", "sortCmp", "sortRead", "sortW1", "sortW2",
   "closeWindows"}

\* the slices still referenced by the model or by a running closeTabsAsync
Live(mm, rr) ==
  {mm.emptyPinnedOnlyWindows} \cup
  {rr[k].ew : k \in {x \in DOMAIN rr : rr[x].pc \in ClosePcs}} \cup
  {k \in DOMAIN rr : rr[k].pc = "refreshed"}

\* heap h once the garbage collector has dropped what nothing references
Collect(h, mm, rr) ==
  [k \in DOMAIN h |-> IF k \in Live(mm, rr) THEN h[k] ELSE << >>]

(***************************************************************************)
(* Initial browsers of the protocol runs.                                  *)
(***************************************************************************)
InitialBrowsers ==
  { << <<4>>, <<4>>, <<4, 1>> >>,     \* URL 4 pinned, windows 1 and 2 pinned-only
    << <<1, 2>>, <<3>> >> }           \* URL 2 a similar duplicate of URL 1

\* the program's memory is gone once the process has exited
Exited(mm) == [NoModel EXCEPT !.quitting = mm.quitting]

InitWith(browsers, n) ==
  /\ safari \in browsers
  /\ store = StoreEdge
  /\ phase = "start"
  /\ m = NoModel
  /\ budget = n
  /\ heap = [k \in 0..n |-> << >>]
  /\ req = [k \in 1..n |-> IdleReq]
  /\ nreq = 0
  /\ enterPressed = FALSE
  /\ sim = NoCompare
  /\ cpc = "off"
  /\ cRaw = << >>
  /\ cTabs = << >>
  /\ cEmpty = << >>

Init == InitWith(InitialBrowsers, MaxRequests)

(***************************************************************************)
(* main                                                                    *)
(***************************************************************************)
\* getSafariTabs fails: os.Exit(1)
MainFails ==
  /\ phase = "start"
  /\ phase' = "exited"
  /\ UNCHANGED <<safari, store, m, heap, req, nreq, budget, enterPressed, cvars>>

\* getSafariTabs returns; no tab is left: os.Exit(0); else the program starts
Main ==
  /\ phase = "start"
  /\ LET allTabs == getSafariTabsRaw(safari)
         tabs == findDuplicates(
                   enrichWithVisitData(filterPinnedTabs(allTabs), DefaultAge, store, Now))
     IN IF Len(tabs) = 0
        THEN /\ phase' = "exited"
             /\ UNCHANGED <<m, heap>>
        ELSE /\ phase' = "running"
             /\ m' = [NoModel EXCEPT !.tabs = tabs]
             /\ \E emptyWindows \in Orders(emptyWindowSet(allTabs)) :
                  heap' = [heap EXCEPT ![0] = emptyWindows]
  /\ UNCHANGED <<safari, store, req, nreq, budget, enterPressed, cvars>>

(***************************************************************************)
(* model.Update, case tea.KeyMsg.  The list's cursor is m.cursor; the      *)
(* items of the list are rebuilt from m.tabs by every handler that changes *)
(* m.tabs, so they are not kept apart.                                     *)
(***************************************************************************)
\* not (m.closing && !m.closingDone)
Accepting == phase = "running" /\ ~(m.closing /\ ~m.closingDone)

SetMessage(kind, n) == [kind |-> kind, count |-> n]

\* "q", "ctrl+c"
KeyQuit ==
  /\ Accepting
  /\ m' = Exited([m EXCEPT !.quitting = TRUE])
  /\ phase' = "exited"
  /\ heap' = [k \in DOMAIN heap |-> << >>]
  /\ req' = [k \in DOMAIN req |-> IdleReq]
  /\ nreq' = 0
  /\ UNCHANGED <<safari, store, budget, enterPressed, cvars>>

\* "j", "down": list.CursorDown
KeyDown ==
  /\ Accepting
  /\ m.cursor + 1 < Len(m.tabs)
  /\ m' = [m EXCEPT !.cursor = m.cursor + 1]
  /\ UNCHANGED <<safari, store, phase, heap, req, nreq, budget, enterPressed, cvars>>

\* "k", "up": list.CursorUp
KeyUp ==
  /\ Accepting
  /\ m.cursor > 0
  /\ m' = [m EXCEPT !.cursor = m.cursor - 1]
  /\ UNCHANGED <<safari, store, phase, heap, req, nreq, budget, enterPressed, cvars>>

\* m.tabs after the toggle of the item under the cursor, if there is one
Toggled(tabs, cursor) ==
  IF cursor + 1 \in 1..Len(tabs)
  THEN [tabs EXCEPT ![cursor + 1].Selected = ~tabs[cursor + 1].Selected]
  ELSE tabs

\* " ", "enter"
KeyToggle(k) ==
  /\ Accepting
  /\ m' = [m EXCEPT !.tabs = Toggled(m.tabs, m.cursor)]
  /\ enterPressed' = (enterPressed \/ k = "enter")
  /\ UNCHANGED <<safari, store, phase, heap, req, nreq, budget, cvars>>

\* the URLs of the selected tabs, in list order (tabsToClose)
SelectedURLs(tabs) ==
  LET sel == Filter(tabs, [i \in 1..Len(tabs) |-> tabs[i].Selected])
  IN [i \in 1..Len(sel) |-> sel[i].URL]

\* "c" with nothing selected, without the return of line 223: the command is
\* started for an empty tabsToClose
KeyCloseNothingLaunches ==
  /\ Accepting
  /\ SelectedURLs(m.tabs) = << >>
  /\ nreq < budget
  /\ nreq' = nreq + 1
  /\ m' = [m EXCEPT !.message = SetMessage("nothing selected", 0),
                    !.closing = TRUE,
                    !.closingTotal = 0,
                    !.closingCurrent = 0,
                    !.closingDone = FALSE]
  /\ req' = [req EXCEPT ![nreq + 1] =
               [IdleReq EXCEPT !.pc = "enumerate",
                               !.ew = m.emptyPinnedOnlyWindows,
                               !.ewLen = Len(heap[m.emptyPinnedOnlyWindows]),
                               !.ewIn = heap[m.emptyPinnedOnlyWindows]]]
  /\ UNCHANGED <<safari, store, phase, heap, budget, enterPressed, cvars>>

\* "c" with nothing selected
KeyCloseNothing ==
  /\ Accepting
  /\ SelectedURLs(m.tabs) = << >>
  /\ m' = [m EXCEPT !.message = SetMessage("nothing selected", 0)]
  /\ UNCHANGED <<safari, store, phase, heap, req, nreq, budget, enterPressed, cvars>>

\* the record of the closeTabsAsync command that "c" returns
Launch(tabsToClose, ew, content) ==
  [IdleReq EXCEPT !.pc = "enumerate", !.tabsToClose = tabsToClose,
                  !.ew = ew, !.ewLen = Len(content), !.ewIn = content]

\* "c" with a selection: closeTabsAsync is started
KeyClose ==
  /\ Accepting
  /\ SelectedURLs(m.tabs) # << >>
  /\ nreq < budget
  /\ nreq' = nreq + 1
  /\ m' = [m EXCEPT !.closing = TRUE,
                    !.closingTotal = Len(SelectedURLs(m.tabs)),
                    !.closingCurrent = 0,
                    !.closingDone = FALSE]
  /\ req' = [req EXCEPT ![nreq + 1] =
               Launch(SelectedURLs(m.tabs), m.emptyPinnedOnlyWindows,
                      heap[m.emptyPinnedOnlyWindows])]
  /\ UNCHANGED <<safari, store, phase, heap, budget, enterPressed, cvars>>

\* "a"
KeySelectDuplicates ==
  /\ Accepting
  /\ m' = [m EXCEPT !.tabs =
             [i \in 1..Len(m.tabs) |->
                IF m.tabs[i].DuplicateOf # NoDup
                THEN [m.tabs[i] EXCEPT !.Selected = TRUE] ELSE m.tabs[i]]]
  /\ UNCHANGED <<safari, store, phase, heap, req, nreq, budget, enterPressed, cvars>>

\* "n"
KeyDeselect ==
  /\ Accepting
  /\ m' = [m EXCEPT !.tabs =
             [i \in 1..Len(m.tabs) |->
                IF m.tabs[i].DuplicateOf # NoDup
                THEN [m.tabs[i] EXCEPT !.Selected = FALSE] ELSE m.tabs[i]]]
  /\ UNCHANGED <<safari, store, phase, heap, req, nreq, budget, enterPressed, cvars>>

\* "o"
KeySelectOld ==
  /\ Accepting
  /\ m' = [m EXCEPT !.tabs =
             [i \in 1..Len(m.tabs) |->
                IF m.tabs[i].IsOld
                THEN [m.tabs[i] EXCEPT !.Selected = TRUE] ELSE m.tabs[i]]]
  /\ UNCHANGED <<safari, store, phase, heap, req, nreq, budget, enterPressed, cvars>>

(***************************************************************************)
(* closeTabsAsync, step by step.  A step is one call of osascript or one   *)
(* access of sort.Sort to the shared backing array of emptyWindows.        *)
(***************************************************************************)
Running(id) == phase = "running" /\ id \in DOMAIN req

\* a count of every command issued, close-window commands too
CompletedCountsAll(r) == [r EXCEPT !.pc = "complete", !.count = Len(r.issued)]

\* the closure returns closingCompleteMsg{count: len(tabsToCloseNow)}
Completed(r) == [r EXCEPT !.pc = "complete", !.count = Len(r.plan)]

\* the range loop over emptyWindows begins
WindowLoop(r) ==
  IF r.ewLen = 0 THEN Completed(r)
  ELSE [r EXCEPT !.pc = "closeWindows", !.idx = 0]

\* insertion sort, outer loop: for i := 1; i < n; i++, inner loop from j = i
SortOuter(r, i) ==
  IF i < r.ewLen THEN [r EXCEPT !.pc = "sortCmp", !.si = i, !.sj = i]
  ELSE WindowLoop(r)

\* the loop over tabsToCloseNow has ended: sort.Sort(sort.Reverse(...))
AfterTabs(r) == SortOuter(r, 1)

\* the range loop over tabsToCloseNow begins
TabLoop(r) ==
  IF r.plan = << >> THEN AfterTabs(r)
  ELSE [r EXCEPT !.pc = "closeTabs", !.idx = 0]

\* the error branch without its return: the plan is run on an empty snapshot
EnumerateFailedNoReturn(r) == TabLoop([r EXCEPT !.failed = TRUE])

\* getSafariTabsRaw returned an error
EnumerateFailed(r) == [r EXCEPT !.pc = "complete", !.count = 0, !.failed = TRUE]

\* getSafariTabsRaw returned currentTabs
Enumerated(r, currentTabs) ==
  TabLoop([r EXCEPT !.currentTabs = currentTabs,
                    !.plan = SortPlan(MatchTabs(currentTabs, Range(r.tabsToClose)))])

CloseEnumerateFails(id) ==
  /\ Running(id) /\ req[id].pc = "enumerate"
  /\ req' = [req EXCEPT ![id] = EnumerateFailed(req[id])]
  /\ UNCHANGED <<safari, store, phase, m, heap, nreq, budget, enterPressed, cvars>>

CloseEnumerate(id) ==
  /\ Running(id) /\ req[id].pc = "enumerate"
  /\ req' = [req EXCEPT ![id] = Enumerated(req[id], getSafariTabsRaw(safari))]
  /\ UNCHANGED <<safari, store, phase, m, heap, nreq, budget, enterPressed, cvars>>

\* one iteration of the loop over tabsToCloseNow
TabIssued(r) ==
  LET wt == r.plan[r.idx + 1]
      r1 == [r EXCEPT !.issued = Append(r.issued, CloseTabCmd(wt.window, wt.tab)),
                      !.idx = r.idx + 1]
  IN IF r1.idx < Len(r.plan) THEN r1 ELSE AfterTabs(r1)

\* osascript carries the command out
CloseTabStep(id) ==
  /\ Running(id) /\ req[id].pc = "closeTabs"
  /\ LET wt == req[id].plan[req[id].idx + 1]
     IN /\ HasTab(safari, wt.window, wt.tab)
        /\ safari' = CloseTabIn(safari, wt.window, wt.tab)
  /\ req' = [req EXCEPT ![id] = TabIssued(req[id])]
  /\ UNCHANGED <<store, phase, m, heap, nreq, budget, enterPressed, cvars>>

\* osascript carries the command out in a browser whose windows keep their
\* indices
CloseTabStepKeepWindow(id) ==
  /\ Running(id) /\ req[id].pc = "closeTabs"
  /\ LET wt == req[id].plan[req[id].idx + 1]
     IN /\ HasTab(safari, wt.window, wt.tab)
        /\ safari' = CloseTabKeepWindow(safari, wt.window, wt.tab)
  /\ req' = [req EXCEPT ![id] = TabIssued(req[id])]
  /\ UNCHANGED <<store, phase, m, heap, nreq, budget, enterPressed, cvars>>

\* cmd.Run returns an error: the warning is logged and the loop goes on
CloseTabStepFails(id) ==
  /\ Running(id) /\ req[id].pc = "closeTabs"
  /\ req' = [req EXCEPT ![id] = TabIssued(req[id])]
  /\ UNCHANGED <<safari, store, phase, m, heap, nreq, budget, enterPressed, cvars>>

\* Less(j, j-1) of sort.Reverse: data[j-1] < data[j]
SortCompare(id) ==
  /\ Running(id) /\ req[id].pc = "sortCmp"
  /\ LET r == req[id]
         x == heap[r.ew]
     IN req' = [req EXCEPT ![id] =
                  IF x[r.sj] < x[r.sj + 1]
                  THEN [r EXCEPT !.pc = "sortRead"]
                  ELSE SortOuter(r, r.si + 1)]
  /\ UNCHANGED <<safari, store, phase, m, heap, nreq, budget, enterPressed, cvars>>

\* Swap(j, j-1): x[j], x[j-1] = x[j-1], x[j]; the right-hand side is read
SortSwapRead(id) ==
  /\ Running(id) /\ req[id].pc = "sortRead"
  /\ LET r == req[id]
         x == heap[r.ew]
     IN req' = [req EXCEPT ![id] =
                  [r EXCEPT !.pc = "sortW1", !.sa = x[r.sj], !.sb = x[r.sj + 1]]]
  /\ UNCHANGED <<safari, store, phase, m, heap, nreq, budget, enterPressed, cvars>>

\* x[j] = the value read from x[j-1]
SortWrite1(id) ==
  /\ Running(id) /\ req[id].pc = "sortW1"
  /\ heap' = [heap EXCEPT ![req[id].ew][req[id].sj + 1] = req[id].sa]
  /\ req' = [req EXCEPT ![id].pc = "sortW2"]
  /\ UNCHANGED <<safari, store, phase, m, nreq, budget, enterPressed, cvars>>

\* x[j-1] = the value read from x[j]; then j-- and the inner loop goes on
SortWrite2(id) ==
  /\ Running(id) /\ req[id].pc = "sortW2"
  /\ heap' = [heap EXCEPT ![req[id].ew][req[id].sj] = req[id].sb]
  /\ LET r == [req[id] EXCEPT !.sa = 0, !.sb = 0]
     IN req' = [req EXCEPT ![id] =
                  IF r.sj - 1 > 0
                  THEN [r EXCEPT !.pc = "sortCmp", !.sj = r.sj - 1]
                  ELSE SortOuter(r, r.si + 1)]
  /\ UNCHANGED <<safari, store, phase, m, nreq, budget, enterPressed, cvars>>

\* one iteration of the loop over emptyWindows
WindowIssued(r, windowIdx) ==
  LET r1 == [r EXCEPT !.issued = Append(r.issued, CloseWindowCmd(windowIdx)),
                      !.idx = r.idx + 1]
  IN IF r1.idx < r.ewLen THEN r1 ELSE Completed(r1)

\* osascript carries the command out
CloseWindowStep(id) ==
  /\ Running(id) /\ req[id].pc = "closeWindows"
  /\ LET windowIdx == heap[req[id].ew][req[id].idx + 1]
     IN /\ windowIdx \in 1..Len(safari)
        /\ safari' = CloseWindowIn(safari, windowIdx)
        /\ req' = [req EXCEPT ![id] = WindowIssued(req[id], windowIdx)]
  /\ UNCHANGED <<store, phase, m, heap, nreq, budget, enterPressed, cvars>>

\* cmd.Run returns an error: the warning is logged and the loop goes on
CloseWindowStepFails(id) ==
  /\ Running(id) /\ req[id].pc = "closeWindows"
  /\ req' = [req EXCEPT ![id] =
               WindowIssued(req[id], heap[req[id].ew][req[id].idx + 1])]
  /\ UNCHANGED <<safari, store, phase, m, heap, nreq, budget, enterPressed, cvars>>

(***************************************************************************)
(* model.Update, case closingCompleteMsg; refreshTabsCmd; model.Update,    *)
(* case tabsRefreshedMsg.                                                  *)
(***************************************************************************)
UpdateClosingComplete(id) ==
  /\ Running(id) /\ req[id].pc = "complete"
  /\ m' = [m EXCEPT !.closingDone = TRUE,
                    !.message = SetMessage("closed", req[id].count)]
  /\ req' = [req EXCEPT ![id] = [IdleReq EXCEPT !.pc = "refresh"]]
  /\ heap' = Collect(heap, m', req')
  /\ UNCHANGED <<safari, store, phase, nreq, budget, enterPressed, cvars>>

\* getSafariTabs fails: tabsRefreshedMsg{tabs: []Tab{}, emptyWindows: []int{}}
RefreshTabsFails(id) ==
  /\ Running(id) /\ req[id].pc = "refresh"
  /\ req' = [req EXCEPT ![id].pc = "refreshed", ![id].tabs = << >>]
  /\ heap' = [heap EXCEPT ![id] = << >>]
  /\ UNCHANGED <<safari, store, phase, m, nreq, budget, enterPressed, cvars>>

RefreshTabs(id) ==
  /\ Running(id) /\ req[id].pc = "refresh"
  /\ LET allTabs == getSafariTabsRaw(safari)
     IN /\ req' = [req EXCEPT
                     ![id].pc = "refreshed",
                     ![id].tabs =
                       findDuplicates(
                         enrichWithVisitData(filterPinnedTabs(allTabs),
                                             m.ageDays, store, Now))]
        /\ \E emptyWindows \in Orders(emptyWindowSet(allTabs)) :
             heap' = [heap EXCEPT ![id] = emptyWindows]
  /\ UNCHANGED <<safari, store, phase, m, nreq, budget, enterPressed, cvars>>

UpdateTabsRefreshed(id) ==
  /\ Running(id) /\ req[id].pc = "refreshed"
  /\ m' = [m EXCEPT !.tabs = req[id].tabs,
                    !.emptyPinnedOnlyWindows = id,
                    !.closing = FALSE,
                    !.closingDone = FALSE,
                    !.closingTotal = 0,
                    !.closingCurrent = 0,
                    !.message = SetMessage("refreshed", 0)]
  /\ req' = [req EXCEPT ![id] = DoneReq]
  /\ heap' = Collect(heap, m', req')
  /\ UNCHANGED <<safari, store, phase, nreq, budget, enterPressed, cvars>>

Next ==
  \/ MainFails
  \/ Main
  \/ KeyQuit
  \/ KeyDown
  \/ KeyUp
  \/ \E k \in {" ", "enter"} : KeyToggle(k)
  \/ KeyCloseNothing
  \/ KeyClose
  \/ KeySelectDuplicates
  \/ KeyDeselect
  \/ KeySelectOld
  \/ \E id \in 1..budget :
       \/ CloseEnumerateFails(id)
       \/ CloseEnumerate(id)
       \/ CloseTabStep(id)
       \/ CloseTabStepFails(id)
       \/ SortCompare(id)
       \/ SortSwapRead(id)
       \/ SortWrite1(id)
       \/ SortWrite2(id)
       \/ CloseWindowStep(id)
       \/ CloseWindowStepFails(id)
       \/ UpdateClosingComplete(id)
       \/ RefreshTabsFails(id)
       \/ RefreshTabs(id)
       \/ UpdateTabsRefreshed(id)

Spec == Init /\ [][Next]_vars

(***************************************************************************)
(* The protocol with room for one close request less than Spec.            *)
(***************************************************************************)
InitSingle == InitWith(InitialBrowsers, MaxRequests - 1)

SpecSingle == InitSingle /\ [][Next]_vars

(***************************************************************************)
(* The protocol when every provider call returns and Bubble Tea delivers   *)
(* every message: each command in flight goes on until its message has     *)
(* been handled by Update.  The user's keys are under no such condition.    *)
(***************************************************************************)
CommandStep(id) ==
  \/ CloseEnumerateFails(id)
  \/ CloseEnumerate(id)
  \/ CloseTabStep(id)
  \/ CloseTabStepFails(id)
  \/ SortCompare(id)
  \/ SortSwapRead(id)
  \/ SortWrite1(id)
  \/ SortWrite2(id)
  \/ CloseWindowStep(id)
  \/ CloseWindowStepFails(id)
  \/ UpdateClosingComplete(id)
  \/ RefreshTabsFails(id)
  \/ RefreshTabs(id)
  \/ UpdateTabsRefreshed(id)

SpecLive == Spec /\ \A id \in 1..MaxRequests : WF_vars(CommandStep(id))

(***************************************************************************)
(* The runs with overlapping requests: the protocol from the browser with  *)
(* two pinned-only windows, with room for RaceRequests close requests.     *)
(***************************************************************************)
InitRace == InitWith({ << <<4>>, <<4>>, <<4, 1, 1>> >> }, RaceRequests)

\* a user who only presses "c", and a browser that answers every enumerate
\* and refuses every close
NextRace ==
  \/ Main
  \/ KeyClose
  \/ \E id \in 1..budget :
       \/ CloseEnumerate(id)
       \/ CloseTabStepFails(id)
       \/ SortCompare(id)
       \/ SortSwapRead(id)
       \/ SortWrite1(id)
       \/ SortWrite2(id)
       \/ CloseWindowStepFails(id)
       \/ UpdateClosingComplete(id)
       \/ RefreshTabs(id)
       \/ UpdateTabsRefreshed(id)

SpecRace == InitRace /\ [][NextRace]_vars

(***************************************************************************)
(* closeTabsAsync on its own: the command has just been returned by        *)
(* Update for the selection tabsToClose and the list emptyWindows, and the *)
(* browser is in any state, since it may have changed after the list of    *)
(* the selection was taken.                                                *)
(***************************************************************************)
CloseURLs == {1, 3, 4}

\* the windows of n tabs
WindowsOf(n) == [1..n -> CloseURLs]

\* the tab counts of one or two windows that hold up to MaxTabs tabs in all
WindowSizes ==
  {<<n>> : n \in 1..MaxTabs} \cup
  {p \in (1..MaxTabs) \X (1..MaxTabs) : p[1] + p[2] <= MaxTabs}

BrowsersOf(sizes) ==
  IF Len(sizes) = 1
  THEN {<<w>> : w \in WindowsOf(sizes[1])}
  ELSE {<<p[1], p[2]>> : p \in WindowsOf(sizes[1]) \X WindowsOf(sizes[2])}

CloseBrowsers == UNION {BrowsersOf(sizes) : sizes \in WindowSizes}

RECURSIVE Ascending(_)
Ascending(S) ==
  IF S = {} THEN << >>
  ELSE LET top == CHOOSE x \in S : \A y \in S : y <= x
       IN Append(Ascending(S \ {top}), top)

TargetLists == {Ascending(S) : S \in (SUBSET CloseURLs) \ {{}}}

EmptyWindowLists == {<< >>, <<1>>, <<1, 2>>, <<2, 1>>}

\* the list the selection was made on
SelectionOf(tabsToClose) ==
  [i \in 1..Len(tabsToClose) |->
     [NewTab(1, i, tabsToClose[i]) EXCEPT !.Selected = TRUE]]

InitClose ==
  /\ safari \in CloseBrowsers
  /\ store = StoreEdge
  /\ phase = "running"
  /\ budget = 1
  /\ nreq = 1
  /\ enterPressed = FALSE
  /\ sim = NoCompare
  /\ \E tabsToClose \in TargetLists, emptyWindows \in EmptyWindowLists :
       /\ m = [NoModel EXCEPT !.tabs = SelectionOf(tabsToClose),
                              !.closing = TRUE,
                              !.closingTotal = Len(tabsToClose)]
       /\ heap = (0 :> emptyWindows) @@ (1 :> << >>)
       /\ req = (1 :> Launch(tabsToClose, 0, emptyWindows))
  /\ cpc = "off"
  /\ cRaw = << >>
  /\ cTabs = << >>
  /\ cEmpty = << >>

NextClose ==
  \E id \in 1..budget :
    \/ CloseEnumerateFails(id)
    \/ CloseEnumerate(id)
    \/ CloseTabStep(id)
    \/ CloseTabStepFails(id)
    \/ SortCompare(id)
    \/ SortSwapRead(id)
    \/ SortWrite1(id)
    \/ SortWrite2(id)
    \/ CloseWindowStep(id)
    \/ CloseWindowStepFails(id)

SpecClose == InitClose /\ [][NextClose]_vars

(***************************************************************************)
(* closeTabsAsync on its own, with a browser whose windows keep their      *)
(* indices when they lose a tab, and that nothing else changes.            *)
(***************************************************************************)
NextShift ==
  \E id \in 1..budget :
    \/ CloseEnumerateFails(id)
    \/ CloseEnumerate(id)
    \/ CloseTabStepKeepWindow(id)
    \/ CloseTabStepFails(id)
    \/ SortCompare(id)
    \/ SortSwapRead(id)
    \/ SortWrite1(id)
    \/ SortWrite2(id)
    \/ CloseWindowStep(id)
    \/ CloseWindowStepFails(id)

SpecShift == InitClose /\ [][NextShift]_vars

(***************************************************************************)
(* The protocol from a browser in which a pinned URL is open once more     *)
(* beyond position 4: URL 4 is pinned at position 1 of three windows,      *)
(* windows 1 and 2 are pinned-only, and window 3 shows URL 4 again at      *)
(* position 5.                                                             *)
(***************************************************************************)
PinnedCopyBrowsers == { << <<4>>, <<4>>, <<4, 1, 3, 5, 4>> >> }

InitPinnedCopy == InitWith(PinnedCopyBrowsers, 1)

SpecPinnedCopy == InitPinnedCopy /\ [][Next]_vars

(***************************************************************************)
(* Claims on the classification pipeline (checked under SpecClassify).     *)
(***************************************************************************)
Filtered == cpc # "raw"
Enriched == cpc \in {"enriched", "classified"}
Classified == cpc = "classified"

\* the tabs of the raw list that filterPinnedTabs removed
Removed(i) == cRaw[i] \notin Range(cTabs)

\* the windows in which url sits at one of the first four positions
CandidateWindows(url) ==
  {cRaw[i].WindowIndex : i \in {k \in 1..Len(cRaw) :
      cRaw[k].URL = url /\ cRaw[k].TabIndex <= PinnedMaxIndex}}

\* the windows in which url sits at position pos
WindowsAt(url, pos) ==
  {cRaw[i].WindowIndex : i \in {k \in 1..Len(cRaw) :
      cRaw[k].URL = url /\ cRaw[k].TabIndex = pos}}

C5_UnavailableStoreAllStale ==
  (Enriched /\ ~store.ok) => \A i \in 1..Len(cTabs) : cTabs[i].IsOld

Matches(i) ==
  {j \in 0..(i - 1) :
     \/ cTabs[i + 1].URL = cTabs[j + 1].URL
     \/ areSimilarURLs(cTabs[i + 1].URL, cTabs[j + 1].URL)}

\* C6: after findDuplicates, DuplicateOf of tab i is absent exactly when no
\* earlier tab has the same or a similar URL, and otherwise it is the smallest
\* such index, which is < i.
C6_DuplicateOfIsFirstEarlierMatch ==
  Classified =>
    \A i \in 0..(Len(cTabs) - 1) :
      LET d == cTabs[i + 1].DuplicateOf
          matches == Matches(i)
      IN /\ (d = NoDup) <=> (matches = {})
         /\ d # NoDup =>
              /\ d \in matches
              /\ d < i
              /\ \A j \in matches : d <= j

\* a tab with two earlier matches, linked to the first of them; a tab with the
\* URL of an earlier tab and no similar one, linked too; a tab without a match
\* after the first
C6_Witness ==
  /\ Classified
  /\ \E i \in 0..(Len(cTabs) - 1) :
       /\ Cardinality(Matches(i)) >= 2
       /\ cTabs[i + 1].DuplicateOf = 0

C6_WitnessExactOnly ==
  /\ Classified
  /\ \E i \in 0..(Len(cTabs) - 1) :
       /\ cTabs[i + 1].DuplicateOf # NoDup
       /\ ~areSimilarURLs(cTabs[i + 1].URL, cTabs[cTabs[i + 1].DuplicateOf + 1].URL)


\* the URLs that sit at one position <= 4 in at least 3 windows of cRaw
PinnedInRaw ==
  {url \in {cRaw[i].URL : i \in 1..Len(cRaw)} :
     \E pos \in 1..PinnedMaxIndex :
        Cardinality(WindowsAt(url, pos)) >= PinnedMinCount}

\* the indices of cRaw that are to stay: not (position <= 4 and pinned URL)
Staying ==
  LET pinned == PinnedInRaw
  IN {i \in 1..Len(cRaw) :
        ~(cRaw[i].TabIndex <= PinnedMaxIndex /\ cRaw[i].URL \in pinned)}

\* the windows of cRaw all of whose tabs are to go
Emptied ==
  LET staying == Staying
  IN {w \in {cRaw[i].WindowIndex : i \in 1..Len(cRaw)} :
        \A i \in 1..Len(cRaw) : cRaw[i].WindowIndex = w => i \notin staying}

\* C12: filterPinnedTabs returns the tabs that do not sit at a position <= 4
\* with a pinned URL, all of them and in their original order, and reports
\* exactly the windows that held a tab and lost every tab, each once.
C12_FilterRemovesPinnedOnly ==
  cpc = "filtered" =>
    LET staying == Staying
        emptied == Emptied
    IN /\ Len(cTabs) = Cardinality(staying)
       /\ \A k \in 1..Len(cTabs) :
            \E i \in staying :
              /\ Cardinality({j \in staying : j <= i}) = k
              /\ cTabs[k] = cRaw[i]
       /\ Range(cEmpty) = emptied
       /\ Len(cEmpty) = Cardinality(emptied)

\* a window of two pinned tabs is reported; a window of two pinned tabs and a
\* third tab, which carries a pinned URL at position 5, is not
C12_Witness ==
  /\ cpc = "filtered"
  /\ \E w1, w2 \in 1..MaxWindow :
       /\ w1 \in Range(cEmpty)
       /\ Cardinality({i \in 1..Len(cRaw) : cRaw[i].WindowIndex = w1}) = 2
       /\ w2 \notin Range(cEmpty)
       /\ Cardinality({i \in 1..Len(cRaw) :
                         cRaw[i].WindowIndex = w2 /\ i \notin Staying}) = 2
       /\ \E k \in 1..Len(cTabs) :
            /\ cTabs[k].WindowIndex = w2
            /\ cTabs[k].TabIndex > PinnedMaxIndex
            /\ cTabs[k].URL \in PinnedInRaw

\* C18: the second run of findDuplicates, on the list the first run returned,
\* leaves the DuplicateOf of every tab as the first run set it.
C18_SecondRunSameDuplicateOf ==
  [][StepFindDuplicatesAgain =>
       /\ Len(cTabs') = Len(cTabs)
       /\ \A i \in 1..Len(cTabs) : cTabs'[i].DuplicateOf = cTabs[i].DuplicateOf]_vars

\* after the second run: a tab linked to a tab that is a duplicate itself and
\* not similar to that tab's original
C18_Witness ==
  /\ cpc = "reclassified"
  /\ \E i \in 1..Len(cTabs) :
       LET d == cTabs[i].DuplicateOf
       IN /\ d # NoDup
          /\ cTabs[d + 1].DuplicateOf # NoDup
          /\ ~areSimilarURLs(cTabs[i].URL, cTabs[cTabs[d + 1].DuplicateOf + 1].URL)

(***************************************************************************)
(* Claims on areSimilarURLs (checked under SpecSimilar).  The normalized   *)
(* domain and path of a URL are taken from the wording of the claims.      *)
(***************************************************************************)
\* the URL without a leading scheme http:// or https:// and a leading www.
Unprefixed(url) ==
  LET http == <<"h", "t", "t", "p", ":", "/", "/">>
      https == <<"h", "t", "t", "p", "s", ":", "/", "/">>
      u == IF HasPrefix(url, http) THEN SubSeq(url, Len(http) + 1, Len(url))
           ELSE IF HasPrefix(url, https) THEN SubSeq(url, Len(https) + 1, Len(url))
           ELSE url
  IN IF HasPrefix(u, <<"w", "w", "w", ".">>) THEN SubSeq(u, 5, Len(u)) ELSE u

\* lower-cased, up to the first "/"
NormDomain(url) ==
  LET u == Unprefixed(url)
      p == IndexOf(u, <<"/">>)
  IN ToLower(IF p = 0 THEN u ELSE SubSeq(u, 1, p - 1))

\* what follows the domain, one trailing "/" stripped; empty if nothing follows
NormPath(url) ==
  LET u == Unprefixed(url)
      p == IndexOf(u, <<"/">>)
      rest == IF p = 0 THEN << >> ELSE SubSeq(u, p, Len(u))
  IN IF HasSuffix(rest, <<"/">>) THEN SubSeq(rest, 1, Len(rest) - 1) ELSE rest

Least(S) == CHOOSE x \in S : \A y \in S : x <= y

RECURSIVE EditRow(_, _, _, _)
\* row holds the edit distances of a prefix of a and every prefix of b; the
\* result holds them for that prefix followed by c; done are its first cells
EditRow(c, b, row, done) ==
  LET j == Len(done)
  IN IF j > Len(b) THEN done
     ELSE EditRow(c, b, row,
                  Append(done,
                         Least({row[j + 1] + 1,
                                done[j] + 1,
                                row[j] + (IF c = b[j] THEN 0 ELSE 1)})))

RECURSIVE EditRows(_, _, _)
EditRows(a, b, row) ==
  IF a = << >> THEN row[Len(b) + 1]
  ELSE EditRows(Tail(a), b, EditRow(Head(a), b, row, <<row[1] + 1>>))

\* the unit-cost edit distance of a and b
EditDistance(a, b) == EditRows(a, b, [k \in 1..(Len(b) + 1) |-> k - 1])

Compared == sim.pc = "compared"
Text1 == URLText[sim.url1]
Text2 == URLText[sim.url2]

\* C13 as stated: two URLs with equal normalized domains and with paths that
\* are equal once one trailing "/" is stripped are similar.
C13_EqualNormalizedAreSimilar ==
  (Compared /\ NormDomain(Text1) = NormDomain(Text2)
            /\ NormPath(Text1) = NormPath(Text2))
    => sim.similar

\* C17: two URLs with equal non-empty normalized domains and different
\* normalized paths are similar if and only if both paths are non-empty and
\* 10 * d < 3 * maxLen, d the edit distance of the lower-cased paths and
\* maxLen the length of the longer path.
C17_SimilarityOverSeventyPercent ==
  LET p1 == NormPath(Text1)
      p2 == NormPath(Text2)
      d == EditDistance(ToLower(p1), ToLower(p2))
      maxLen == IF Len(p1) > Len(p2) THEN Len(p1) ELSE Len(p2)
  IN (Compared /\ NormDomain(Text1) = NormDomain(Text2)
               /\ NormDomain(Text1) # << >>
               /\ p1 # p2)
       => (sim.similar <=> (p1 # << >> /\ p2 # << >> /\ 10 * d < 3 * maxLen))

\* page?id=1 against page?id=2: distance 1 of 10, similar
C17_Witness ==
  /\ Compared
  /\ NormDomain(Text1) = NormDomain(Text2)
  /\ NormPath(Text1) # NormPath(Text2)
  /\ EditDistance(ToLower(NormPath(Text1)), ToLower(NormPath(Text2))) = 1
  /\ Len(NormPath(Text1)) = 10
  /\ sim.similar

\* page?id=1 against page?xy=2: distance 3 of 10, exactly 0.70, not similar
C17_WitnessBoundary ==
  /\ Compared
  /\ NormDomain(Text1) = NormDomain(Text2)
  /\ EditDistance(ToLower(NormPath(Text1)), ToLower(NormPath(Text2))) = 3
  /\ Len(NormPath(Text1)) = 10 /\ Len(NormPath(Text2)) = 10
  /\ ~sim.similar

(***************************************************************************)
(* Claims on the close protocol.                                           *)
(***************************************************************************)
IsTabCmd(c) == c.op = "tab"
IsWindowCmd(c) == c.op = "window"

\* the requests whose closeTabsAsync or refreshTabsCmd has not yet had its
\* message handled by Update
InFlight == {id \in DOMAIN req : req[id].pc \notin {"idle", "done"}}

\* the requests whose closeTabsAsync has a fresh snapshot
Planned ==
  {id \in DOMAIN req :
     /\ req[id].pc \in (ClosePcs \ {"enumerate"}) \cup {"complete"}
     /\ ~req[id].failed}

Finished == {id \in Planned : req[id].pc = "complete"}

\* lexicographic: (window, tab) of a above (window, tab) of b
Above(a, b) == a.window > b.window \/ (a.window = b.window /\ a.tab > b.tab)

\* C1: in every run of closeTabsAsync the close-tab commands are issued in
\* strictly descending (windowIndex, tabIndex) order.
C1_DescendingCloseOrder ==
  \A id \in DOMAIN req :
    \A i, j \in DOMAIN req[id].issued :
      (i < j /\ IsTabCmd(req[id].issued[i]) /\ IsTabCmd(req[id].issued[j]))
        => Above(req[id].issued[i], req[id].issued[j])

\* a finished plan of three close-tab commands, two of them in one window
C1_Witness ==
  \E id \in Finished :
    LET c == req[id].issued
    IN /\ Len(c) >= 3
       /\ IsTabCmd(c[1]) /\ IsTabCmd(c[2]) /\ IsTabCmd(c[3])
       /\ c[1].window > c[2].window
       /\ c[2].window = c[3].window

\* C2 as stated: at most one request is in flight at any time (closeTabsAsync
\* or the refreshTabsCmd that follows it, until their messages are handled).
C2_OneRequestInFlight == Cardinality(InFlight) <= 1

\* C3: no close command of a request is issued before its enumerate call has
\* returned, and when that call fails the request issues no command and its
\* closingCompleteMsg carries count 0.
C3_NoCloseWithoutSnapshot ==
  \A id \in DOMAIN req :
    /\ req[id].pc = "enumerate" => req[id].issued = << >>
    /\ req[id].failed =>
         /\ req[id].issued = << >>
         /\ req[id].pc = "complete"
         /\ req[id].count = 0

\* a failed enumerate of a request that had tabs and windows to close
C3_Witness ==
  \E id \in DOMAIN req :
    /\ req[id].failed
    /\ req[id].pc = "complete"
    /\ req[id].ewLen > 0
    /\ \E w \in 1..Len(safari) : \E t \in 1..Len(safari[w]) :
         safari[w][t] \in Range(req[id].tabsToClose)

\* the index in the snapshot of the tab at (w, t), 0 if there is none
SnapIndex(snap, w, t) ==
  LET hit == {i \in 1..Len(snap) : snap[i].WindowIndex = w /\ snap[i].TabIndex = t}
  IN IF hit = {} THEN 0 ELSE CHOOSE i \in hit : TRUE

\* the indices in the snapshot of the tabs that carry url
Carriers(snap, url) == {i \in 1..Len(snap) : snap[i].URL = url}

\* the snapshot indices addressed by the close-tab commands issued so far
Addressed(r) ==
  [k \in {x \in DOMAIN r.issued : IsTabCmd(r.issued[x])} |->
     SnapIndex(r.currentTabs, r.issued[k].window, r.issued[k].tab)]

\* C7: one invocation issues at most one close-tab command per URL of the
\* target set, for the first tab of the fresh snapshot that carries the URL;
\* a target URL that no tab of the snapshot carries gets no command, every
\* other target URL has got its command when the plan is finished.
C7_OneClosePerURL ==
  \A id \in Planned :
    LET r == req[id]
        a == Addressed(r)
        targets == Range(r.tabsToClose)
    IN /\ \A k \in DOMAIN a :
            /\ a[k] # 0
            /\ r.currentTabs[a[k]].URL \in targets
            /\ \A i \in Carriers(r.currentTabs, r.currentTabs[a[k]].URL) : a[k] <= i
       /\ \A k1, k2 \in DOMAIN a : k1 # k2 => a[k1] # a[k2]
       /\ r.pc = "complete" =>
            \A u \in targets :
              (Carriers(r.currentTabs, u) # {}) <=>
                (\E k \in DOMAIN a : r.currentTabs[a[k]].URL = u)

\* a finished plan with a target URL on two live tabs and one on none
C7_Witness ==
  \E id \in Finished :
    LET r == req[id]
    IN /\ \E u \in Range(r.tabsToClose) : Cardinality(Carriers(r.currentTabs, u)) >= 2
       /\ \E u \in Range(r.tabsToClose) : Carriers(r.currentTabs, u) = {}
       /\ \E k \in DOMAIN r.issued : IsTabCmd(r.issued[k])

Count(seq, P(_)) == Cardinality({k \in DOMAIN seq : P(seq[k])})

\* C8 as stated: a finished plan has issued exactly one close-tab command for
\* every matched tab and exactly one close-window command for every entry of
\* the pinned-empty window list, whatever failed.
C8_EveryCommandIssuedOnce ==
  \A id \in Finished :
    LET r == req[id]
    IN /\ Count(r.issued, IsTabCmd) = Len(r.plan)
       /\ \A k \in DOMAIN r.plan :
            Count(r.issued,
                  LAMBDA c : c = CloseTabCmd(r.plan[k].window, r.plan[k].tab)) = 1
       /\ Count(r.issued, IsWindowCmd) = Len(r.ewIn)
       /\ \A k \in DOMAIN r.ewIn :
            Count(r.issued, LAMBDA c : c = CloseWindowCmd(r.ewIn[k])) = 1

\* C9 as stated: in one plan no close-tab command follows a close-window
\* command, and the close-window commands go in strictly descending order of
\* the window index.
C9_WindowsLastDescending ==
  \A id \in DOMAIN req :
    \A i, j \in DOMAIN req[id].issued :
      (i < j /\ IsWindowCmd(req[id].issued[i])) =>
        /\ IsWindowCmd(req[id].issued[j])
        /\ req[id].issued[i].window > req[id].issued[j].window

\* some close command has been issued by a request in flight
SomeIssued == \E id \in DOMAIN req : req[id].issued # << >>

\* C10 as stated: Enter, handled while there is a selection, starts a close
\* request, and no close command is issued unless Enter has been handled.
C10_EnterStartsClosing ==
  /\ [](SomeIssued => enterPressed)
  /\ [][(KeyToggle("enter") /\ SelectedURLs(m.tabs) # << >>) => nreq' = nreq + 1]_vars

\* C11 as stated: once the "n" key has been handled, no tab of the list is
\* selected.
C11_DeselectClearsAll ==
  [][KeyDeselect => \A i \in 1..Len(m'.tabs) : ~m'.tabs[i].Selected]_vars

\* C15 as stated: whenever the program runs, a close operation in progress
\* or not, the quit key is handled (it quits), and handling it issues no
\* close command.
C15_QuitAtAnyTime ==
  /\ [](phase = "running" => Accepting)
  /\ [][KeyQuit =>
          /\ phase' = "exited"
          /\ safari' = safari
          /\ \A id \in DOMAIN req : Len(req'[id].issued) <= Len(req[id].issued)]_vars

\* C16: the count of the closingCompleteMsg of an invocation is the number of
\* close-tab commands the invocation has issued, carried out or not, and no
\* close-window command is counted.
C16_CountIsTabCommands ==
  \A id \in DOMAIN req :
    req[id].pc = "complete" => req[id].count = Count(req[id].issued, IsTabCmd)

\* an invocation that has issued two close-tab commands, at least one of them
\* refused by the browser, and a close-window command
C16_Witness ==
  \E id \in Finished :
    /\ req[id].count = 2
    /\ Count(req[id].issued, IsWindowCmd) >= 1
    /\ Len(getSafariTabsRaw(safari)) >= Len(req[id].currentTabs) - 1

\* C19: in a browser whose windows keep their indices, the close-tab command
\* that is about to be issued addresses a live tab, and the tab carries the
\* URL that the fresh snapshot showed at that (window, tab) position, whatever
\* earlier commands of the plan were carried out or refused.
C19_IssuedCommandAddressesMatchedTab ==
  \A id \in DOMAIN req :
    req[id].pc = "closeTabs" =>
      LET r == req[id]
          wt == r.plan[r.idx + 1]
          at == SnapIndex(r.currentTabs, wt.window, wt.tab)
      IN /\ at # 0
         /\ HasTab(safari, wt.window, wt.tab)
         /\ safari[wt.window][wt.tab] = r.currentTabs[at].URL

\* the third command of one window is about to be issued; of the two before
\* it one was carried out and one refused
C19_Witness ==
  \E id \in DOMAIN req :
    LET r == req[id]
    IN /\ r.pc = "closeTabs"
       /\ r.idx = 2
       /\ r.plan[1].window = r.plan[3].window
       /\ Len(safari[r.plan[3].window]) =
            Cardinality({i \in 1..Len(r.currentTabs) :
                           r.currentTabs[i].WindowIndex = r.plan[3].window}) - 1

\* the tabs of the snapshot that are not pinned tabs: beyond position 4, or
\* with a URL that is not pinned in the snapshot
Unpinned(snap) ==
  LET pinned == pinnedURLs(snap)
  IN {i \in 1..Len(snap) :
        ~(snap[i].TabIndex <= PinnedMaxIndex /\ snap[i].URL \in pinned)}

\* C20 as stated: a close request issues no close-window command for a window
\* that holds a tab that is not pinned in the fresh snapshot of the request.
C20_NoUnpinnedWindowClosed ==
  \A id \in Planned :
    LET r == req[id]
    IN \A k \in DOMAIN r.issued :
         IsWindowCmd(r.issued[k]) =>
           \A i \in Unpinned(r.currentTabs) :
             r.currentTabs[i].WindowIndex # r.issued[k].window

\* C21 as stated: no close-tab command of a request addresses a tab that is
\* a pinned tab of the request's fresh snapshot (position <= 4 with a URL
\* that is pinned in the snapshot).
C21_NoPinnedTabClosed ==
  \A id \in Planned :
    LET r == req[id]
        a == Addressed(r)
        free == Unpinned(r.currentTabs)
    IN \A k \in DOMAIN a : a[k] # 0 => a[k] \in free

\* the handling of one key press by Update
KeyPress ==
  \/ KeyQuit
  \/ KeyDown
  \/ KeyUp
  \/ \E k \in {" ", "enter"} : KeyToggle(k)
  \/ KeyCloseNothing
  \/ KeyClose
  \/ KeySelectDuplicates
  \/ KeyDeselect
  \/ KeySelectOld

\* the stage of a request: accepted (1..4), closingCompleteMsg waiting (5),
\* refreshTabsCmd running (6), tabsRefreshedMsg waiting (7), handled (8)
Stage(pc) ==
  CASE pc = "idle" -> 0
    [] pc = "enumerate" -> 1
    [] pc = "closeTabs" -> 2
    [] pc \in {"sortCmp", "sortRead", "sortW1", "sortW2"} -> 3
    [] pc = "closeWindows" -> 4
    [] pc = "complete" -> 5
    [] pc = "refresh" -> 6
    [] pc = "refreshed" -> 7
    [] pc = "done" -> 8

\* the requests between their acceptance and the handling of their
\* closingCompleteMsg
BeforeComplete == {id \in DOMAIN req : Stage(req[id].pc) \in 1..5}

\* the model is back: not closing, the counters at 0, keys accepted
ModelIdle ==
  /\ ~m.closing
  /\ m.closingTotal = 0
  /\ m.closingCurrent = 0
  /\ Accepting

\* C22 as stated: a close request never goes back to an earlier stage and its
\* closingCompleteMsg and then its tabsRefreshedMsg are handled one after the
\* other, no per-item message moves closingCurrent, every accepted request
\* gets both messages handled and the model comes back to closing = false
\* with both counters 0 and keys accepted (unless the user has quit), and a
\* key press handled while a request is between its acceptance and its
\* closingCompleteMsg leaves the model unchanged.
C22_OneTerminalMessageThenIdle ==
  /\ [][phase' = "running" =>
          \A id \in DOMAIN req :
            /\ Stage(req'[id].pc) >= Stage(req[id].pc)
            /\ Stage(req[id].pc) >= 5 =>
                 Stage(req'[id].pc) <= Stage(req[id].pc) + 1]_vars
  /\ [](m.closingCurrent = 0)
  /\ \A id \in 1..MaxRequests :
       (req[id].pc = "enumerate") ~> (phase = "exited" \/ req[id].pc = "done")
  /\ m.closing ~> (phase = "exited" \/ ModelIdle)
  /\ [][(BeforeComplete # {} /\ KeyPress) => m' = m]_vars

\* no tab of the list is selected
NothingSelected == \A i \in 1..Len(m.tabs) : ~m.tabs[i].Selected

\* C23: when "c" is handled while no tab is selected, the browser, the
\* commands in flight and the slices are left as they are (no enumerate,
\* close-tab or close-window call, pinned-only windows included), and the
\* model changes in its message only: closing, the tabs with their
\* selection and emptyPinnedOnlyWindows are unchanged.  Hence no command is
\* ever in flight for an empty target list.
C23_CloseWithoutSelectionIsNoOp ==
  /\ [](\A id \in BeforeComplete : req[id].tabsToClose # << >>)
  /\ [][((KeyCloseNothing \/ KeyClose) /\ NothingSelected) =>
          /\ safari' = safari
          /\ req' = req
          /\ nreq' = nreq
          /\ heap' = heap
          /\ m'.closing = m.closing
          /\ m'.tabs = m.tabs
          /\ m'.emptyPinnedOnlyWindows = m.emptyPinnedOnlyWindows
          /\ m' = [m EXCEPT !.message = m'.message]
          /\ m'.message = SetMessage("nothing selected", 0)]_vars

\* "c" has been handled with nothing selected while the list of pinned-only
\* windows was not empty: the windows are still open, no request was made
C23_Witness ==
  /\ phase = "running"
  /\ m.message = SetMessage("nothing selected", 0)
  /\ NothingSelected
  /\ m.tabs # << >>
  /\ heap[m.emptyPinnedOnlyWindows] # << >>
  /\ \A k \in DOMAIN heap[m.emptyPinnedOnlyWindows] :
       heap[m.emptyPinnedOnlyWindows][k] \in 1..Len(safari)
  /\ nreq = 0

\* every tab of the list is selected exactly if it is marked as a duplicate
DefaultSelection(tabs) ==
  \A i \in 1..Len(tabs) : tabs[i].Selected <=> tabs[i].DuplicateOf # NoDup

\* the tab of the list at the place and with the URL of tab, 0 if none
SameTab(tabs, tab) ==
  LET hit == {i \in 1..Len(tabs) :
                /\ tabs[i].WindowIndex = tab.WindowIndex
                /\ tabs[i].TabIndex = tab.TabIndex
                /\ tabs[i].URL = tab.URL}
  IN IF hit = {} THEN 0 ELSE CHOOSE i \in hit : TRUE

\* C24: the list that main hands to the UI, the list of every
\* tabsRefreshedMsg, and the list of the model once Update has taken that
\* message all have Selected true exactly on the tabs whose DuplicateOf is
\* set, whatever was selected on the list before.
C24_FreshListSelectsDuplicatesOnly ==
  /\ [](\A id \in DOMAIN req :
          req[id].pc = "refreshed" => DefaultSelection(req[id].tabs))
  /\ [][(Main /\ phase' = "running") => DefaultSelection(m'.tabs)]_vars
  /\ [][\A id \in DOMAIN req :
          UpdateTabsRefreshed(id) =>
            (m'.tabs = req[id].tabs /\ DefaultSelection(m'.tabs))]_vars

\* a tabsRefreshedMsg waits whose list holds a tab that the user had
\* selected on the list before and that is not a duplicate, now unselected,
\* and a duplicate that the user had deselected, now selected
C24_Witness ==
  \E id \in DOMAIN req :
    /\ req[id].pc = "refreshed"
    /\ \E i \in 1..Len(m.tabs) :
         LET k == SameTab(req[id].tabs, m.tabs[i])
         IN /\ m.tabs[i].Selected
            /\ m.tabs[i].DuplicateOf = NoDup
            /\ k # 0
            /\ ~req[id].tabs[k].Selected
    /\ \E i \in 1..Len(m.tabs) :
         LET k == SameTab(req[id].tabs, m.tabs[i])
         IN /\ ~m.tabs[i].Selected
            /\ m.tabs[i].DuplicateOf # NoDup
            /\ k # 0
            /\ req[id].tabs[k].Selected

=============================================================================
